---- MODULE Spec2Model ----
(***************************************************************************)
(* Model of src/rfid_reader.py: the RFID door controller.                  *)
(*                                                                         *)
(* One main control path (GPIOHandler.__enter__, main, validate_rfid,      *)
(* activate_rfid_if_assigned, deny_access, flash_relay, unlock_door,       *)
(* GPIOHandler.__exit__) plus the detached daemon threads started by       *)
(* log_access_attempt.  The main path is cut wherever a variable of the    *)
(* model changes; a KeyboardInterrupt can arrive between any two steps.    *)
(*                                                                         *)
(* Encoding of JSON / Python values: every scalar is written as a string;  *)
(* "absent" is a key that is not in the object, "None" is JSON null /      *)
(* Python None, "list" is a non-empty JSON value that is not an object     *)
(* (truthy, has no .get), "empty" is {} and "object" a non-empty object.   *)
(***************************************************************************)
EXTENDS Integers, Sequences, FiniteSets, TLC

VARIABLES
    pc,            \* position of the main control path
    output,        \* level of RELAY_PIN: "UNSET", "LOW", "HIGH", "RELEASED"
    exitCause,     \* why the main loop was left: "none", "interrupt", "error", "eof", "setup_fault"
    cleanupDone,   \* GPIO.cleanup() has run
    scans,         \* number of lines read by input() so far
    rfid_uid,      \* argument of the validate_rfid call in progress
    vresp,         \* response of the verify post of the call in progress
    aresp,         \* response of the activate post of the call in progress
    verifyCalls,   \* verify posts sent by the call in progress
    activateCalls, \* activate posts sent by the call in progress
    engages,       \* unlock_door calls of the call in progress that set the relay HIGH
    flashes,       \* flash_relay calls of the call in progress that set the relay HIGH
    pulses,        \* completed HIGH/LOW pulses of the flash_relay in progress
    slept,         \* seconds slept by the unlock_door in progress
    issued,        \* log records issued by the call in progress
    records,       \* every log record issued so far (endpoint, payload), in order
    inflight,      \* indexes of records whose log_worker thread is alive
    delivered,     \* indexes of records, in the order their post reached the backend
    lost,          \* indexes of records whose thread was killed by the end of the interpreter
    jsonErrIsRequestException, \* the installed requests raises a RequestException from response.json()
    totalEngages,  \* unlock_door calls completed since process start
    totalFlashes   \* flash_relay calls completed since process start

vars == <<pc, output, exitCause, cleanupDone, scans, rfid_uid, vresp, aresp,
          verifyCalls, activateCalls, engages, flashes, pulses, slept, issued,
          records, inflight, delivered, lost, jsonErrIsRequestException,
          totalEngages, totalFlashes>>

-----------------------------------------------------------------------------
(* Bounds *)

MaxScans == 2

-----------------------------------------------------------------------------
(* Configuration constants *)

UNLOCK_DURATION_SECONDS == 5
flash_count == 6

-----------------------------------------------------------------------------
(* Input lines and str.strip() *)

\* line 228: str.strip() without argument removes every leading and trailing
\* character c with c.isspace().  A character is a one-element string; the
\* ones that have no escape in a TLA+ string are written by their Python
\* escape ("\\x0b" is the character U+000B).
Whitespace ==
    {" ", "\t", "\n", "\r", "\f", "\\x0b", "\\x1c", "\\x1d", "\\x1e", "\\x1f",
     "\\x85", "\\xa0", "\\u1680", "\\u2000", "\\u2001", "\\u2002", "\\u2003",
     "\\u2004", "\\u2005", "\\u2006", "\\u2007", "\\u2008", "\\u2009", "\\u200a",
     "\\u2028", "\\u2029", "\\u202f", "\\u205f", "\\u3000"}

RECURSIVE LStrip(_)
LStrip(s) == IF s = <<>> THEN s
             ELSE IF Head(s) \in Whitespace THEN LStrip(Tail(s)) ELSE s

RECURSIVE RStrip(_)
RStrip(s) == IF s = <<>> THEN s
             ELSE IF s[Len(s)] \in Whitespace THEN RStrip(SubSeq(s, 1, Len(s) - 1)) ELSE s

strip(s) == RStrip(LStrip(s))

\* the lines input() returns: empty, whitespace only, a bare uid, a uid with
\* whitespace of several kinds around it
Lines ==
    { <<>>, <<" ">>, <<"\t">>, <<"\\x0b", "\r">>,
      <<"A", "1">>, <<"A", "1", "\r">>, <<"\t", "A", "1">>,
      <<" ", "B", "2", " ">>, <<"\\xa0", "\f", "B", "2", "\\u3000">> }

-----------------------------------------------------------------------------
(* Python value helpers *)

\* dict.get(key, default): the default only when the key is absent
Get(v, default) == IF v = "absent" THEN default ELSE v

\* bool(v)
Truthy(v) == v \notin {"None", "false", "empty"}

\* v has a .get method
IsDict(v) == v \in {"empty", "object"}

-----------------------------------------------------------------------------
(* Responses of the backend *)

VBlank == [kind |-> "http", code |-> 0, body |-> "absent", success |-> "absent",
           data |-> "absent", rfid |-> "absent", status |-> "absent",
           guest |-> "absent", guest_id |-> "absent", room |-> "absent"]

VBase == [kind |-> "http", code |-> 200, body |-> "object", success |-> "true",
          data |-> "object", rfid |-> "object", status |-> "active",
          guest |-> "object", guest_id |-> "7", room |-> "object"]

NoResp == [VBlank EXCEPT !.kind = "none"]

VerifyResponses ==
    {[VBlank EXCEPT !.kind = "transport"]}
    \cup {[VBlank EXCEPT !.code = c, !.body = b] :
             c \in {200, 403, 404, 500}, b \in {"unparseable", "list", "object"}}
    \cup {[VBlank EXCEPT !.code = 200, !.body = "object", !.success = s] :
             s \in {"false", "None"}}
    \cup {[VBase EXCEPT !.success = "false"]}
    \cup {[VBlank EXCEPT !.code = 200, !.body = "object", !.success = "true", !.data = d] :
             d \in {"absent", "None", "list"}}
    \cup {[VBase EXCEPT !.rfid = r, !.status = "absent"] : r \in {"absent", "None", "list"}}
    \cup {[VBase EXCEPT !.status = s] :
             s \in {"absent", "None", "assigned", "active", "unassigned"}}
    \cup {[VBase EXCEPT !.status = s, !.guest = "absent", !.guest_id = "absent"] :
             s \in {"absent", "None", "assigned", "active", "unassigned"}}
    \cup {[VBase EXCEPT !.guest = g, !.guest_id = "absent"] :
             g \in {"None", "empty", "list", "object"}}
    \cup {[VBase EXCEPT !.guest_id = "None"]}
    \cup {[VBase EXCEPT !.room = r] : r \in {"absent", "None", "list"}}

ABlank == [kind |-> "http", code |-> 0, body |-> "absent", success |-> "absent",
           data |-> "absent", status |-> "absent"]

NoAResp == [ABlank EXCEPT !.kind = "none"]

ActivateResponses ==
    {[ABlank EXCEPT !.kind = "transport"]}
    \cup {[ABlank EXCEPT !.code = c, !.body = "object"] : c \in {404, 500}}
    \cup {[ABlank EXCEPT !.code = 200, !.body = b] : b \in {"unparseable", "list"}}
    \cup {[ABlank EXCEPT !.code = 200, !.body = "object", !.success = s] :
             s \in {"absent", "false"}}
    \cup {[ABlank EXCEPT !.code = 200, !.body = "object", !.success = "true", !.data = d] :
             d \in {"absent", "None", "list"}}
    \cup {[ABlank EXCEPT !.code = 200, !.body = "object", !.success = "true",
                         !.data = "object", !.status = s] :
             s \in {"absent", "None", "active", "assigned"}}

-----------------------------------------------------------------------------
(* validate_rfid: what the code does with the verify response *)

\* a changed except branch: the transport error is treated as a denial
OnVerifyTransportError_Deny == "deny"

\* lines 152-154: the except branch of the verify post
OnVerifyTransportError == "return"

\* a changed test: the flag is only looked up, not evaluated
VerifySuccess_KeyPresent(resp) == resp.success # "absent"

\* line 166: the test of the success flag
VerifySuccess(resp) == Truthy(Get(resp.success, "None"))

\* lines 171-198: the extraction of the details; "RAISE" is an AttributeError
\* from a .get on a value that is not a dict, otherwise current_status
ExtractStatus(resp) ==
    LET var_data   == Get(resp.data, "empty")
        rfid_data  == Get(resp.rfid, "empty")
        guest_info == Get(resp.guest, "empty")
        var_room   == Get(resp.room, "None")
        room_info  == IF var_room # "None" THEN var_room ELSE "empty"
    IN  IF ~IsDict(var_data) THEN "RAISE"
        ELSE IF Truthy(guest_info) /\ ~IsDict(guest_info) THEN "RAISE"
        ELSE IF Truthy(room_info) /\ ~IsDict(room_info) THEN "RAISE"
        ELSE IF ~IsDict(rfid_data) THEN "RAISE"
        ELSE Get(resp.status, "None")

\* line 210: the guest id of the granted payload
GuestId(resp) ==
    LET guest_info == Get(resp.guest, "empty")
    IN  IF Truthy(guest_info) THEN Get(resp.guest_id, "None") ELSE "None"

\* a changed test: every status is activated
NeedsActivation_Always(rfid_status) == TRUE

\* a changed test: no status is ever activated
NeedsActivation_Never(rfid_status) == FALSE

\* line 112: the test that sends the activate post
NeedsActivation(rfid_status) == rfid_status = "assigned"

\* a changed check: the None returned on failure is not tested
AfterActivation_NoNoneCheck(updated_status) ==
    IF updated_status = "RAISE" THEN "raise" ELSE "unlock"

\* lines 200-205: what follows the status returned by activate_rfid_if_assigned
AfterActivation(updated_status) ==
    IF updated_status = "RAISE" THEN "raise"
    ELSE IF updated_status = "None" THEN "deny"
    ELSE "unlock"

\* lines 145-222 up to the next blocking call:
\* "return", "deny", "raise", "activate" or "unlock"
VerifyDecision(resp) ==
    IF resp.kind = "transport" THEN OnVerifyTransportError
    ELSE IF resp.code = 200 THEN
        IF resp.body = "unparseable" THEN "deny"
        ELSE IF ~IsDict(resp.body) THEN "raise"
        ELSE IF ~VerifySuccess(resp) THEN "deny"
        ELSE LET current_status == ExtractStatus(resp)
             IN  IF current_status = "RAISE" THEN "raise"
                 ELSE IF NeedsActivation(current_status) THEN "activate"
                 ELSE AfterActivation(current_status)
    ELSE IF resp.code \in {403, 404} THEN
        IF resp.body = "unparseable" THEN "deny"
        ELSE IF ~IsDict(resp.body) THEN "raise"
        ELSE "deny"
    ELSE "deny"

\* lines 116-137: the value activate_rfid_if_assigned returns for a response,
\* "RAISE" when an exception leaves the function
ActivateResult(resp, jsonErrCaught) ==
    IF resp.kind = "transport" THEN "None"
    ELSE IF resp.code = 200 THEN
        IF resp.body = "unparseable" THEN (IF jsonErrCaught THEN "None" ELSE "RAISE")
        ELSE IF ~IsDict(resp.body) THEN "RAISE"
        ELSE IF Truthy(Get(resp.success, "None")) THEN
            LET updatedRFID == Get(resp.data, "empty")
            IN  IF ~IsDict(updatedRFID) THEN "RAISE"
                ELSE Get(resp.status, "unknown")
        ELSE "None"
    ELSE "None"

-----------------------------------------------------------------------------
(* Initial state: the interpreter has loaded the module, the with statement
   has not been entered *)

Init ==
    /\ pc = "boot"
    /\ output = "UNSET"
    /\ exitCause = "none"
    /\ cleanupDone = FALSE
    /\ scans = 0
    /\ rfid_uid = <<>>
    /\ vresp = NoResp
    /\ aresp = NoAResp
    /\ verifyCalls = 0
    /\ activateCalls = 0
    /\ engages = 0
    /\ flashes = 0
    /\ pulses = 0
    /\ slept = 0
    /\ issued = 0
    /\ records = <<>>
    /\ inflight = {}
    /\ delivered = <<>>
    /\ lost = {}
    /\ jsonErrIsRequestException \in BOOLEAN
    /\ totalEngages = 0
    /\ totalFlashes = 0

callVars == <<rfid_uid, vresp, aresp, verifyCalls, activateCalls, engages,
              flashes, pulses, slept, issued>>
logVars == <<records, inflight, delivered, lost>>
envVars == <<jsonErrIsRequestException>>

-----------------------------------------------------------------------------
(* GPIOHandler and the end of the process *)

\* line 37: the level GPIO.setup gives the pin
SetupInitial == "LOW"

\* lines 34-38; a fault of GPIO.setmode / GPIO.setup leaves __enter__ as an
\* exception: the with body and __exit__ do not run
GPIOEnter ==
    /\ pc = "boot"
    /\ \E fault \in BOOLEAN :
          IF fault
          THEN /\ pc' = "exited"
               /\ exitCause' = "setup_fault"
               /\ UNCHANGED output
          ELSE /\ pc' = "read"
               /\ output' = SetupInitial
               /\ UNCHANGED exitCause
    /\ UNCHANGED <<cleanupDone, scans, callVars, logVars, envVars, totalEngages, totalFlashes>>

\* lines 237-238 and 40-45: sys.exit(0) leaves the with block and __exit__
\* runs GPIO.cleanup().  The log threads are untouched: they run on until the
\* interpreter ends
GPIOExit ==
    /\ pc = "unwind"
    /\ pc' = "exited"
    /\ output' = "RELEASED"
    /\ cleanupDone' = TRUE
    /\ UNCHANGED <<exitCause, scans, callVars, logVars, envVars,
                   totalEngages, totalFlashes>>

\* a changed thread start (daemon=False): the interpreter ends only when
\* every log thread has finished
ProcessEnd_Join ==
    /\ pc = "exited"
    /\ inflight = {}
    /\ pc' = "ended"
    /\ UNCHANGED <<output, exitCause, cleanupDone, scans, callVars, logVars, envVars,
                   totalEngages, totalFlashes>>

\* line 24 and line 92: the main thread is over, the interpreter ends without
\* joining the daemon threads: a thread still alive is killed, whether its
\* post has reached the backend or not
ProcessEnd ==
    /\ pc = "exited"
    /\ pc' = "ended"
    /\ lost' = inflight
    /\ inflight' = {}
    /\ UNCHANGED <<output, exitCause, cleanupDone, scans, callVars, records, delivered,
                   envVars, totalEngages, totalFlashes>>

-----------------------------------------------------------------------------
(* main *)

\* lines 228-232: one line is read; an empty line is skipped, any other starts
\* validate_rfid, which sends the verify post (lines 147-151)
ReadScan ==
    /\ pc = "read"
    /\ scans < MaxScans
    /\ \E line \in Lines :
          LET uid == strip(line)
          IN  IF uid = <<>>
              THEN UNCHANGED <<pc, rfid_uid, verifyCalls>>
              ELSE /\ pc' = "verify_wait"
                   /\ rfid_uid' = uid
                   /\ verifyCalls' = verifyCalls + 1
    /\ scans' = scans + 1
    /\ UNCHANGED <<output, exitCause, cleanupDone, vresp, aresp, activateCalls,
                   engages, flashes, pulses, slept, issued, logVars, envVars,
                   totalEngages, totalFlashes>>

\* line 228 at end of input: EOFError, caught at line 235, then line 238
ReadEOF ==
    /\ pc = "read"
    /\ pc' = "unwind"
    /\ exitCause' = "eof"
    /\ UNCHANGED <<output, cleanupDone, scans, callVars, logVars, envVars,
                   totalEngages, totalFlashes>>

\* the positions of the main path inside the try block of main (lines 226-232)
MainRunning == {"read", "verify_wait", "deny_pending", "unlock_pending",
                "activate_wait", "unlock_sleep", "unlock_done", "grant_log",
                "flash_high", "flash_low", "flash_done", "deny_log", "returned"}

\* KeyboardInterrupt is raised in the main thread between any two bytecodes.
\* Inside the try block of main it unwinds to the handler at lines 233-234,
\* then line 238.  Before the with body has been entered (the module level,
\* __enter__ before or after GPIO.setup) and inside __exit__ before
\* GPIO.cleanup() at line 41, nothing catches it: the main thread ends with
\* cleanup not run and the pin as it is
Interrupt ==
    \/ /\ pc \in MainRunning
       /\ pc' = "unwind"
       /\ exitCause' = "interrupt"
       /\ UNCHANGED <<output, cleanupDone, scans, callVars, logVars, envVars,
                      totalEngages, totalFlashes>>
    \/ /\ pc = "unwind"
       /\ pc' = "exited"
       /\ UNCHANGED <<output, exitCause, cleanupDone, scans, callVars, logVars, envVars,
                      totalEngages, totalFlashes>>
    \/ /\ pc = "boot"
       /\ pc' = "exited"
       /\ exitCause' = "interrupt"
       /\ output' \in {output, SetupInitial}
       /\ UNCHANGED <<cleanupDone, scans, callVars, logVars, envVars,
                      totalEngages, totalFlashes>>

\* line 232 back to line 227: validate_rfid has returned, its frame is gone
LoopBack ==
    /\ pc = "returned"
    /\ pc' = "read"
    /\ rfid_uid' = <<>>
    /\ vresp' = NoResp
    /\ aresp' = NoAResp
    /\ verifyCalls' = 0
    /\ activateCalls' = 0
    /\ engages' = 0
    /\ flashes' = 0
    /\ pulses' = 0
    /\ slept' = 0
    /\ issued' = 0
    /\ UNCHANGED <<output, exitCause, cleanupDone, scans, logVars, envVars,
                   totalEngages, totalFlashes>>

-----------------------------------------------------------------------------
(* Log records: log_access_attempt *)

\* lines 92-93: a record is handed to a new daemon thread
IssueRecord(endpoint, payload) ==
    /\ records' = Append(records, [endpoint |-> endpoint, payload |-> payload])
    /\ inflight' = inflight \cup {Len(records) + 1}
    /\ issued' = issued + 1
    /\ UNCHANGED <<delivered, lost>>

\* lines 101-105: the payload of the denied record
DeniedPayload(uid) == [rfid_uid |-> uid]

\* a changed payload: the guest id is never filled in
GrantedPayload_NoGuest(uid, resp) == [rfid_uid |-> uid, guest_id |-> "None"]

\* lines 208-211: the payload of the granted record
GrantedPayload(uid, resp) == [rfid_uid |-> uid, guest_id |-> GuestId(resp)]

-----------------------------------------------------------------------------
(* Grant: unlock_door, then the granted record *)

\* a changed validate_rfid: the granted record is issued before unlock_door
\* is called
StartUnlock_LogFirst ==
    /\ pc = "unlock_pending"
    /\ engages' = engages + 1
    /\ output' = "HIGH"
    /\ slept' = 0
    /\ pc' = "unlock_sleep"
    /\ IssueRecord("granted", [rfid_uid |-> rfid_uid, guest_id |-> GuestId(vresp)])
    /\ UNCHANGED <<exitCause, cleanupDone, scans, rfid_uid, vresp, aresp, verifyCalls,
                   activateCalls, flashes, pulses, envVars, totalEngages, totalFlashes>>

\* lines 205 and 61-63: unlock_door is called, the relay goes HIGH and the
\* sleep starts
StartUnlock ==
    /\ pc = "unlock_pending"
    /\ engages' = engages + 1
    /\ output' = "HIGH"
    /\ slept' = 0
    /\ pc' = "unlock_sleep"
    /\ UNCHANGED <<exitCause, cleanupDone, scans, rfid_uid, vresp, aresp, verifyCalls,
                   activateCalls, flashes, pulses, issued, logVars, envVars,
                   totalEngages, totalFlashes>>

\* line 63: one second of the unlock sleep passes
SleepTick ==
    /\ pc = "unlock_sleep"
    /\ slept < UNLOCK_DURATION_SECONDS
    /\ slept' = slept + 1
    /\ UNCHANGED <<pc, output, exitCause, cleanupDone, scans, rfid_uid, vresp, aresp,
                   verifyCalls, activateCalls, engages, flashes, pulses, issued,
                   logVars, envVars, totalEngages, totalFlashes>>

\* a changed unlock_door: the relay is not switched back
UnlockEndOutput_StaysHigh == "HIGH"

\* line 64: the level unlock_door leaves
UnlockEndOutput == "LOW"

\* line 64: the sleep is over, the relay goes LOW
UnlockEnd ==
    /\ pc = "unlock_sleep"
    /\ slept = UNLOCK_DURATION_SECONDS
    /\ output' = UnlockEndOutput
    /\ pc' = "unlock_done"
    /\ UNCHANGED <<exitCause, cleanupDone, scans, callVars, logVars, envVars,
                   totalEngages, totalFlashes>>

\* line 65 and line 205: unlock_door returns to validate_rfid
UnlockReturn ==
    /\ pc = "unlock_done"
    /\ totalEngages' = totalEngages + 1
    /\ pc' = "grant_log"
    /\ UNCHANGED <<output, exitCause, cleanupDone, scans, callVars, logVars, envVars,
                   totalFlashes>>

\* a changed validate_rfid: the granted record is not issued
LogGranted_NoLog ==
    /\ pc = "grant_log"
    /\ pc' = "returned"
    /\ UNCHANGED <<output, exitCause, cleanupDone, scans, callVars, logVars, envVars,
                   totalEngages, totalFlashes>>

\* lines 207-212: the granted record is issued and validate_rfid returns
LogGranted ==
    /\ pc = "grant_log"
    /\ IssueRecord("granted", GrantedPayload(rfid_uid, vresp))
    /\ pc' = "returned"
    /\ UNCHANGED <<output, exitCause, cleanupDone, scans, rfid_uid, vresp, aresp,
                   verifyCalls, activateCalls, engages, flashes, pulses, slept, envVars,
                   totalEngages, totalFlashes>>

-----------------------------------------------------------------------------
(* Denial: deny_access, flash_relay, then the denied record *)

\* lines 99-100 and 71-74: deny_access calls flash_relay, whose first pass
\* sets the relay HIGH and sleeps
StartDeny ==
    /\ pc = "deny_pending"
    /\ flashes' = flashes + 1
    /\ pulses' = 0
    /\ output' = "HIGH"
    /\ pc' = "flash_high"
    /\ UNCHANGED <<exitCause, cleanupDone, scans, rfid_uid, vresp, aresp, verifyCalls,
                   activateCalls, engages, slept, issued, logVars, envVars,
                   totalEngages, totalFlashes>>

\* a changed flash_relay: the pulse is not switched off
FlashOffOutput_StaysHigh == "HIGH"

\* line 75: the level that ends a flash pulse
FlashOffOutput == "LOW"

\* lines 75-76: the first sleep of a pulse is over, the relay goes LOW and the
\* second sleep starts
FlashOff ==
    /\ pc = "flash_high"
    /\ output' = FlashOffOutput
    /\ pc' = "flash_low"
    /\ UNCHANGED <<exitCause, cleanupDone, scans, callVars, logVars, envVars,
                   totalEngages, totalFlashes>>

\* lines 72-74: the second sleep of a pulse is over and another pulse starts
FlashNext ==
    /\ pc = "flash_low"
    /\ pulses + 1 < flash_count
    /\ pulses' = pulses + 1
    /\ output' = "HIGH"
    /\ pc' = "flash_high"
    /\ UNCHANGED <<exitCause, cleanupDone, scans, rfid_uid, vresp, aresp, verifyCalls,
                   activateCalls, engages, flashes, slept, issued, logVars, envVars,
                   totalEngages, totalFlashes>>

\* line 76, last pass: the second sleep of the last pulse is over
FlashEnd ==
    /\ pc = "flash_low"
    /\ pulses + 1 = flash_count
    /\ pulses' = pulses + 1
    /\ pc' = "flash_done"
    /\ UNCHANGED <<output, exitCause, cleanupDone, scans, rfid_uid, vresp, aresp,
                   verifyCalls, activateCalls, engages, flashes, slept, issued,
                   logVars, envVars, totalEngages, totalFlashes>>

\* line 77 and line 100: flash_relay returns to deny_access
FlashReturn ==
    /\ pc = "flash_done"
    /\ totalFlashes' = totalFlashes + 1
    /\ pc' = "deny_log"
    /\ UNCHANGED <<output, exitCause, cleanupDone, scans, callVars, logVars, envVars,
                   totalEngages>>

\* a changed validate_rfid: the return after deny_access is missing, the code
\* goes on to unlock_door
LogDenied_NoReturn ==
    /\ pc = "deny_log"
    /\ IssueRecord("denied", [rfid_uid |-> rfid_uid])
    /\ pc' = "unlock_pending"
    /\ UNCHANGED <<output, exitCause, cleanupDone, scans, rfid_uid, vresp, aresp,
                   verifyCalls, activateCalls, engages, flashes, pulses, slept, envVars,
                   totalEngages, totalFlashes>>

\* lines 101-105: the denied record is issued, deny_access and validate_rfid
\* return
LogDenied ==
    /\ pc = "deny_log"
    /\ IssueRecord("denied", DeniedPayload(rfid_uid))
    /\ pc' = "returned"
    /\ UNCHANGED <<output, exitCause, cleanupDone, scans, rfid_uid, vresp, aresp,
                   verifyCalls, activateCalls, engages, flashes, pulses, slept, envVars,
                   totalEngages, totalFlashes>>

-----------------------------------------------------------------------------
(* validate_rfid and activate_rfid_if_assigned *)

\* the main path follows a decision up to its next call: the activate post,
\* deny_access or unlock_door
Follow(decision) ==
    CASE decision = "return" ->
            /\ pc' = "returned"
            /\ UNCHANGED <<exitCause, activateCalls>>
      [] decision = "raise" ->
            /\ pc' = "unwind"
            /\ exitCause' = "error"
            /\ UNCHANGED activateCalls
      [] decision = "activate" ->
            /\ pc' = "activate_wait"
            /\ activateCalls' = activateCalls + 1
            /\ UNCHANGED exitCause
      [] decision = "deny" ->
            /\ pc' = "deny_pending"
            /\ UNCHANGED <<exitCause, activateCalls>>
      [] decision = "unlock" ->
            /\ pc' = "unlock_pending"
            /\ UNCHANGED <<exitCause, activateCalls>>

\* lines 147-204, 214-222: the verify post returns or fails
VerifyResponse ==
    /\ pc = "verify_wait"
    /\ \E resp \in VerifyResponses :
          /\ vresp' = resp
          /\ Follow(VerifyDecision(resp))
    /\ UNCHANGED <<output, cleanupDone, scans, rfid_uid, aresp, verifyCalls,
                   engages, flashes, pulses, slept, issued,
                   logVars, envVars, totalEngages, totalFlashes>>

\* lines 117-137, 200-204: the activate post returns or fails
ActivateResponse ==
    /\ pc = "activate_wait"
    /\ \E resp \in ActivateResponses :
          /\ aresp' = resp
          /\ Follow(AfterActivation(ActivateResult(resp, jsonErrIsRequestException)))
    /\ UNCHANGED <<output, cleanupDone, scans, rfid_uid, vresp, verifyCalls,
                   engages, flashes, pulses, slept, issued,
                   logVars, envVars, totalEngages, totalFlashes>>

-----------------------------------------------------------------------------
(* log_access_attempt.log_worker *)

\* what requests.post at line 84 ends with: a response (201 or another
\* status) or a RequestException
LogResults == {"201", "500", "transport"}

\* line 84: the post of record i has reached the backend
Posted(i) == \E k \in 1..Len(delivered) : delivered[k] = i

\* a changed log_worker: it posts again until a post ends with 201
LogWorker_Retry ==
    /\ pc # "ended"
    /\ \E i \in inflight :
          \/ /\ Cardinality({k \in 1..Len(delivered) : delivered[k] = i}) < 2
             /\ delivered' = Append(delivered, i)
             /\ UNCHANGED inflight
          \/ /\ Posted(i)
             /\ inflight' = inflight \ {i}
             /\ UNCHANGED delivered
    /\ UNCHANGED <<pc, output, exitCause, cleanupDone, scans, callVars, records, lost,
                   envVars, totalEngages, totalFlashes>>

\* lines 84-91, one thread, two steps: its one post reaches the backend while
\* the thread stays blocked in requests.post; requests.post ends, with a
\* response (only when the post had reached the backend) or with a
\* RequestException (whether it had or not), the result is printed and the
\* thread is over.  Nothing of the main path changes.  The thread runs as long
\* as the interpreter does
LogWorker ==
    /\ pc # "ended"
    /\ \E i \in inflight :
          \/ /\ ~Posted(i)
             /\ delivered' = Append(delivered, i)
             /\ UNCHANGED inflight
          \/ /\ \E result \in LogResults : result = "transport" \/ Posted(i)
             /\ inflight' = inflight \ {i}
             /\ UNCHANGED delivered
    /\ UNCHANGED <<pc, output, exitCause, cleanupDone, scans, callVars, records, lost,
                   envVars, totalEngages, totalFlashes>>

-----------------------------------------------------------------------------

Next ==
    \/ GPIOEnter
    \/ ReadScan
    \/ ReadEOF
    \/ VerifyResponse
    \/ ActivateResponse
    \/ StartUnlock
    \/ SleepTick
    \/ UnlockEnd
    \/ UnlockReturn
    \/ LogGranted
    \/ StartDeny
    \/ FlashOff
    \/ FlashNext
    \/ FlashEnd
    \/ FlashReturn
    \/ LogDenied
    \/ LoopBack
    \/ Interrupt
    \/ GPIOExit
    \/ ProcessEnd
    \/ LogWorker

Spec == Init /\ [][Next]_vars

TypeOK ==
    /\ pc \in MainRunning \cup {"boot", "unwind", "exited", "ended"}
    /\ output \in {"UNSET", "LOW", "HIGH", "RELEASED"}
    /\ scans \in 0..MaxScans
    /\ pulses \in 0..flash_count
    /\ slept \in 0..UNLOCK_DURATION_SECONDS
-----------------------------------------------------------------------------
(* Vocabulary of the properties *)

\* the records issued by the validate_rfid call in progress
CallRecords == SubSeq(records, Len(records) - issued + 1, Len(records))

NoGranted == \A i \in 1..Len(CallRecords) : CallRecords[i].endpoint # "granted"

IssuedDenied ==
    /\ issued = 1
    /\ CallRecords[1].endpoint = "denied"
    /\ CallRecords[1].payload.rfid_uid = rfid_uid

IssuedGranted ==
    /\ issued = 1
    /\ CallRecords[1].endpoint = "granted"
    /\ CallRecords[1].payload.rfid_uid = rfid_uid

VerifiedOK ==
    /\ vresp.kind = "http"
    /\ vresp.code = 200
    /\ vresp.body = "object"
    /\ vresp.success = "true"

VerifiedAssigned == VerifiedOK /\ vresp.status = "assigned"

\* the activate post failed: transport error, non-200, unparseable body, success false
ActivateFailed ==
    \/ aresp.kind = "transport"
    \/ /\ aresp.kind = "http"
       /\ \/ aresp.code # 200
          \/ aresp.body = "unparseable"
          \/ aresp.body = "object" /\ aresp.success = "false"

\* the activate post returned 200, success true and a status that is not null
ActivationAccepted ==
    /\ aresp.kind = "http"
    /\ aresp.code = 200
    /\ aresp.body = "object"
    /\ aresp.success = "true"
    /\ aresp.data \in {"absent", "object"}
    /\ aresp.status # "None"

-----------------------------------------------------------------------------
(* Positions of the main path *)

\* a validate_rfid call is in progress
InCall == MainRunning \ {"read", "returned"}

\* unlock_door is running or has run in the call in progress
InGrant == {"unlock_sleep", "unlock_done", "grant_log"}

\* flash_relay is running or has run in the call in progress
InDenial == {"flash_high", "flash_low", "flash_done", "deny_log"}

\* the main path is over: the main thread has left the with statement
Over == {"exited", "ended"}

-----------------------------------------------------------------------------
(* C1 *)

C1_SuccessFalse ==
    /\ vresp.kind = "http"
    /\ vresp.code = 200
    /\ vresp.body = "object"
    /\ vresp.success = "false"

\* C1: when verify returns HTTP 200 with a parsed body whose success flag is
\* false, the call takes the denial path: unlock_door is never called or about
\* to be called, no activate post is sent, no granted record is issued and,
\* once the call has returned, the flash has been performed with all its
\* pulses and one denied record for the uid has been issued.
C1_DeniedOnSuccessFalse ==
    C1_SuccessFalse =>
        /\ engages = 0
        /\ activateCalls = 0
        /\ NoGranted
        /\ pc \notin InGrant \cup {"unlock_pending", "activate_wait"}
        /\ (pc = "returned" => flashes = 1 /\ pulses = flash_count /\ IssuedDenied)

C1_Witness == C1_SuccessFalse /\ pc = "returned" /\ IssuedDenied /\ vresp.status = "active"

-----------------------------------------------------------------------------
(* C2 *)

C2_NotAssigned ==
    /\ VerifiedOK
    /\ vresp.data = "object"
    /\ vresp.rfid = "object"
    /\ vresp.status # "assigned"

\* C2: when verify returns HTTP 200 with success true and a status that is not
\* 'assigned' (an absent or null status included), the call returns with the
\* door engaged once for the unlock duration, no flash, and one granted record.
C2_GrantedWhenNotAssigned ==
    (C2_NotAssigned /\ pc = "returned") =>
        /\ engages = 1
        /\ flashes = 0
        /\ activateCalls = 0
        /\ slept = UNLOCK_DURATION_SECONDS
        /\ IssuedGranted

-----------------------------------------------------------------------------
(* C3 *)

\* C3: when verify reports status 'assigned', the call goes on to unlock_door
\* only from the wait for the activate response of that same call, and the
\* step that starts the engagement (unlock_door sets the output HIGH) finds
\* the activate post sent and answered.
C3_ActivateBeforeEngage ==
    [][/\ (pc # "unlock_pending" /\ pc' = "unlock_pending" /\ VerifiedAssigned') =>
             /\ pc = "activate_wait"
             /\ activateCalls = 1
             /\ aresp'.kind = "http"
       /\ (engages' > engages /\ VerifiedAssigned) =>
             /\ pc = "unlock_pending"
             /\ activateCalls = 1
             /\ aresp.kind = "http"
      ]_vars

C3_Witness ==
    /\ VerifiedAssigned
    /\ pc = "unlock_sleep"
    /\ output = "HIGH"
    /\ activateCalls = 1

-----------------------------------------------------------------------------
(* C4 *)

\* C4: when verify reports status 'assigned' and the activate call fails
\* (transport error, non-200, unparseable body, success false), the call is a
\* denial: it is not ended by an error, the door is not engaged, no granted
\* record is issued and, once the call has returned, the flash has been
\* performed and a denied record has been issued.
C4_DeniedWhenActivationFails ==
    (VerifiedAssigned /\ ActivateFailed) =>
        /\ exitCause # "error"
        /\ engages = 0
        /\ NoGranted
        /\ pc \notin InGrant \cup {"unlock_pending"}
        /\ (pc = "returned" => flashes = 1 /\ IssuedDenied)

-----------------------------------------------------------------------------
(* C5 *)

\* C5 as stated: a credential verified as 'assigned' is engaged only if the
\* activation reply carried the status 'active'.
C5_UnlockOnlyIfActive ==
    (VerifiedAssigned /\ engages > 0) =>
        (aresp.kind = "http" /\ aresp.status = "active")

\* C5 as amended: a credential verified as 'assigned' is engaged only if the
\* activation reply was HTTP 200 with success true and a status that is not
\* null (a missing status, or one other than 'active', is accepted); after any
\* other reply the door is not engaged and no granted record is issued.
C5_UnlockOnlyIfActivationAccepted ==
    VerifiedAssigned =>
        /\ (engages > 0 \/ pc = "unlock_pending" => ActivationAccepted)
        /\ (aresp.kind # "none" /\ ~ActivationAccepted => engages = 0 /\ NoGranted)

C5_Witness ==
    /\ VerifiedAssigned
    /\ pc = "returned"
    /\ engages = 1
    /\ aresp.status = "absent"
    /\ IssuedGranted

-----------------------------------------------------------------------------
(* C6 *)

\* C6: after a transport failure of the verify post the call has issued no
\* record, has neither engaged nor flashed the actuator, has sent no activate
\* post, and has returned (or the process is ending).
C6_TransportAbort ==
    vresp.kind = "transport" =>
        /\ engages = 0
        /\ flashes = 0
        /\ activateCalls = 0
        /\ issued = 0
        /\ output # "HIGH"
        /\ pc \in {"returned", "unwind"} \cup Over

C6_Witness == vresp.kind = "transport" /\ pc = "returned" /\ output = "LOW"

-----------------------------------------------------------------------------
(* C7 *)

\* C7 as stated: the output is LOW right before every validate_rfid call and
\* right after it, however the call ended (return, or an exception that
\* unwound it).
C7_LowAroundValidate ==
    (pc \in {"read", "verify_wait", "returned"} \/ (pc = "unwind" /\ verifyCalls > 0))
        => output = "LOW"

\* C7 as amended: the output is LOW right before every validate_rfid call and
\* right after every call that returned or that was ended by an error of its
\* own code; a call ended by an interrupt leaves the output LOW or, when the
\* interrupt came during the engagement or a flash pulse, HIGH.
C7_LowAroundCompletedValidate ==
    /\ pc \in {"read", "verify_wait", "returned"} => output = "LOW"
    /\ (pc = "unwind" /\ exitCause \in {"error", "eof"}) => output = "LOW"
    /\ (pc = "unwind" /\ exitCause = "interrupt" /\ output # "LOW") =>
          /\ output = "HIGH"
          /\ engages + flashes = 1
          /\ issued = 0

C7_Witness == pc = "returned" /\ engages = 1 /\ output = "LOW"

-----------------------------------------------------------------------------
(* C8 *)

\* C8 as stated: the output is HIGH only while the engagement of a grant is in
\* progress.
C8_HighOnlyDuringEngage ==
    output = "HIGH" => (pc = "unlock_sleep" /\ engages = 1)

\* C8 as amended: the output is HIGH only while an engagement (one per grant,
\* at most the unlock duration) or a pulse of the denial flash is in progress,
\* or after an interrupt cut one of them short: then it stays HIGH until
\* cleanup releases the pin, and for good when a further interrupt ends the
\* process before cleanup.  It is LOW in every other position of the running
\* main path, unset before setup and released once cleanup has run.
C8_HighOnlyDuringActuation ==
    /\ output = "HIGH" =>
          \/ pc = "unlock_sleep" /\ engages = 1 /\ flashes = 0
                                 /\ slept <= UNLOCK_DURATION_SECONDS
          \/ pc = "flash_high" /\ flashes = 1 /\ engages = 0 /\ pulses < flash_count
          \/ /\ pc \in {"unwind"} \cup Over
             /\ exitCause = "interrupt"
             /\ ~cleanupDone
             /\ engages + flashes = 1
             /\ issued = 0
    /\ pc \in MainRunning \ {"unlock_sleep", "flash_high"} => output = "LOW"
    /\ pc = "boot" => output = "UNSET"
    /\ cleanupDone => output = "RELEASED"

C8_Witness == output = "HIGH" /\ pc = "flash_high" /\ pulses = flash_count - 1

-----------------------------------------------------------------------------
(* C9 *)

\* C9: a validate_rfid call starts at most one actuator operation, one
\* unlock_door or one flash_relay, never both and never two of one kind; while
\* or after a flash runs no engagement has been started and the other way
\* round, an operation is only started by a call that has started none, and a
\* call that denies issues no granted record.
C9_OneActuatorOpPerValidate ==
    /\ engages + flashes <= 1
    /\ pc \in InDenial => engages = 0 /\ flashes = 1
    /\ pc \in InGrant => flashes = 0 /\ engages = 1
    /\ pc \in {"deny_pending", "unlock_pending"} => engages + flashes = 0
    /\ flashes = 1 => NoGranted

C9_Witness ==
    /\ pc = "returned"
    /\ VerifiedAssigned
    /\ activateCalls = 1
    /\ flashes = 1
    /\ engages = 0
    /\ IssuedDenied

-----------------------------------------------------------------------------
(* C10 *)

\* C10: no verify or activate response and no transport error ends the main
\* loop: the process never ends because of an error raised while a response is
\* handled.
C10_NoResponseEndsLoop == exitCause # "error"

-----------------------------------------------------------------------------
(* C11 *)

\* the verify post ended with a protocol failure: 403, 404, another non-200
\* status, or 200 with a body that does not parse
VerifyProtocolFailure ==
    /\ vresp.kind = "http"
    /\ \/ vresp.code # 200
       \/ vresp.body = "unparseable"

\* the call in progress is on its way through deny_access, or was when an
\* interrupt ended it
OnDenialPath ==
    \/ pc \in InDenial \cup {"deny_pending", "returned"}
    \/ pc \in {"unwind"} \cup Over /\ exitCause = "interrupt"

\* C11: after a protocol failure of the verify post the call is a denial: it
\* goes through deny_access, the door is not engaged, no activate post is sent
\* and, once the call has returned, the flash has been performed with all its
\* pulses and exactly one denied record has been issued.
C11_ProtocolFailureDenied ==
    VerifyProtocolFailure =>
        /\ OnDenialPath
        /\ engages = 0
        /\ activateCalls = 0
        /\ (pc = "returned" => flashes = 1 /\ pulses = flash_count /\ IssuedDenied)

-----------------------------------------------------------------------------
(* C12 *)

\* the step is one of a log thread: its post reaches the backend, or it ends
LogWriteEnds ==
    \/ delivered' # delivered
    \/ inflight' # inflight /\ inflight' \subseteq inflight /\ pc' # "ended"

\* C12: the step that issues a record returns to the caller with the write
\* still pending (thread alive, nothing posted yet); a step of a write,
\* whatever its result, changes nothing of the main path (position, output,
\* counters of the call, records issued); and no record is posted twice: a
\* record reaches the backend at most once, and a thread that has ended never
\* posts again.
C12_LogNeverAffectsMain ==
    [][/\ issued' > issued =>
             /\ pc' = "returned"
             /\ Len(records') \in inflight'
             /\ delivered' = delivered
             /\ ~Posted(Len(records'))
       /\ LogWriteEnds =>
             UNCHANGED <<pc, output, exitCause, cleanupDone, scans, callVars,
                         records, totalEngages, totalFlashes>>
       /\ \A i, j \in 1..Len(delivered') : i # j => delivered'[i] # delivered'[j]
       /\ delivered' # delivered =>
             /\ Len(delivered') = Len(delivered) + 1
             /\ delivered'[Len(delivered')] \in inflight
       /\ inflight' \subseteq inflight \cup {Len(records')}
      ]_vars

\* an engagement is over and its only write has ended with a transport failure
C12_Witness ==
    /\ pc = "read"
    /\ totalEngages = 1
    /\ Len(records) = 1
    /\ inflight = {}
    /\ delivered = <<>>
    /\ lost = {}

-----------------------------------------------------------------------------
(* C13 *)

\* what C13 and the amended C13 share: neither the next read, nor cleanup,
\* nor the end of the interpreter waits for a write in flight; no write is in
\* flight once the interpreter has ended, and only the end of the interpreter
\* loses writes
LogTasksNeverJoined ==
    /\ (pc = "read" /\ scans < MaxScans) => ENABLED ReadScan
    /\ pc = "unwind" => ENABLED GPIOExit
    /\ pc = "exited" => ENABLED ProcessEnd
    /\ pc = "ended" => inflight = {}
    /\ lost # {} => pc = "ended"
    /\ lost \cap inflight = {}
    /\ lost \cup inflight \subseteq 1..Len(records)

\* C13 as stated: log threads are detached, and a write in flight when the
\* interpreter ends is lost: it has not reached the backend and never will.
C13_LogTasksDetached ==
    /\ LogTasksNeverJoined
    /\ \A i \in 1..Len(delivered) : delivered[i] \notin lost

\* C13 as amended: log threads are detached, and a write in flight when the
\* interpreter ends has its thread killed: the record has reached the backend
\* or not, at most once either way, and every record that reached the backend
\* was issued before.
C13_LogTasksDetachedKilled ==
    /\ LogTasksNeverJoined
    /\ \A i, j \in 1..Len(delivered) : i # j => delivered[i] # delivered[j]
    /\ \A i \in 1..Len(delivered) : delivered[i] \in 1..Len(records)

\* the write of the second validation reached the backend before the write of
\* the first, which was in flight during the second validation; the thread of
\* the first was still waiting for its response when the interpreter ended
C13_Witness == delivered = <<2, 1>> /\ pc = "ended" /\ cleanupDone /\ lost = {1}

-----------------------------------------------------------------------------
(* C14 *)

\* C14: whenever the main thread has left the with statement, GPIO.cleanup()
\* has run, whatever ended the loop (interrupt, error, end of input, setup
\* fault).
C14_CleanupOnEveryExit == pc \in Over => cleanupDone

-----------------------------------------------------------------------------
(* C15 *)

\* the guest id the verify response carries, null when it carries none
ResponseGuestId ==
    IF vresp.guest = "object" /\ vresp.guest_id # "absent" THEN vresp.guest_id ELSE "None"

\* C15: the record a returned call has issued carries the scanned uid (the
\* line read, without its surrounding whitespace); a granted record carries,
\* with it, the guest id of the verify response, null when the response has no
\* guest data; a denied record carries the uid only.
C15_RecordPayload ==
    (pc = "returned" /\ issued = 1) =>
        LET rec == CallRecords[1]
        IN  /\ rec.payload.rfid_uid = rfid_uid
            /\ rfid_uid \in {<<"A", "1">>, <<"B", "2">>}
            /\ rec.endpoint = "granted" =>
                  /\ DOMAIN rec.payload = {"rfid_uid", "guest_id"}
                  /\ rec.payload.guest_id = ResponseGuestId
            /\ rec.endpoint = "denied" => DOMAIN rec.payload = {"rfid_uid"}

\* a grant after an activation, for a response with guest data
C15_Witness ==
    /\ pc = "returned"
    /\ IssuedGranted
    /\ activateCalls = 1
    /\ rfid_uid = <<"B", "2">>
    /\ CallRecords[1].payload.guest_id = "7"

-----------------------------------------------------------------------------
(* C16 *)

\* C16: the step that issues a record is the last of its call and comes after
\* the actuation: a granted record is issued when unlock_door has returned,
\* the unlock sleep over and the output LOW again; a denied record when
\* flash_relay has returned, all its pulses done and the output LOW; while the
\* call is still waiting, sleeping or flashing, it has issued no record.
C16_LogAfterActuation ==
    [][/\ issued' > issued =>
             LET rec == records'[Len(records')]
             IN  /\ pc' = "returned"
                 /\ output = "LOW"
                 /\ output' = "LOW"
                 /\ rec.endpoint = "granted" =>
                       /\ pc = "grant_log"
                       /\ engages = 1
                       /\ slept = UNLOCK_DURATION_SECONDS
                 /\ rec.endpoint = "denied" =>
                       /\ pc = "deny_log"
                       /\ flashes = 1
                       /\ pulses = flash_count
       /\ pc' \in InCall => issued' = 0
      ]_vars

C16_Witness ==
    /\ pc = "returned"
    /\ IssuedGranted
    /\ output = "LOW"
    /\ slept = UNLOCK_DURATION_SECONDS
    /\ Len(records) \in inflight

-----------------------------------------------------------------------------
(* C17 *)

\* C17: a call in progress has sent one verify post and at most one activate
\* post; it has sent the activate post only if verify returned 200 with
\* success true and status 'assigned', and a post is only sent from the state
\* in which none of its kind has been sent.
C17_OneVerifyAtMostOneActivate ==
    /\ pc \in InCall \cup {"returned"} => verifyCalls = 1
    /\ verifyCalls <= 1
    /\ activateCalls <= 1
    /\ activateCalls = 1 => VerifiedAssigned /\ vresp.data = "object" /\ vresp.rfid = "object"
    /\ pc = "activate_wait" => activateCalls = 1 /\ flashes = 0 /\ engages = 0

C17_Witness ==
    /\ pc = "returned"
    /\ verifyCalls = 1
    /\ activateCalls = 1
    /\ aresp.kind = "transport"

-----------------------------------------------------------------------------
(* C18 *)

\* C18: when verify reports 'assigned' and activate returns 200 with success
\* true, the call returns with the door engaged and a granted record issued,
\* whatever the status of the activation reply (missing or null included).
C18_GrantedAfterActivateSuccess ==
    (/\ VerifiedAssigned
     /\ aresp.kind = "http"
     /\ aresp.code = 200
     /\ aresp.body = "object"
     /\ aresp.success = "true"
     /\ aresp.data \in {"absent", "object"}
     /\ pc = "returned") =>
        /\ engages = 1
        /\ flashes = 0
        /\ IssuedGranted

-----------------------------------------------------------------------------
(* C19 *)

RecordCount(endpoint) ==
    Cardinality({i \in 1..Len(records) : records[i].endpoint = endpoint})

\* what C19 says of a call that has returned: one record if it reached a
\* verdict, of the kind of its actuation, none if verify failed at transport
\* level
ReturnedCallRecords ==
    pc = "returned" =>
        /\ issued = (IF vresp.kind = "transport" THEN 0 ELSE 1)
        /\ issued = 1 =>
              CallRecords[1].endpoint = (IF engages = 1 THEN "granted" ELSE "denied")

\* C19 as stated: whenever no validate_rfid call is in progress (between two
\* scans, and after the loop has been left for whatever reason), the granted
\* records issued are as many as the engagements completed and the denied
\* records as many as the flashes completed.
C19_OneRecordPerActuation ==
    /\ pc \notin InCall =>
          /\ RecordCount("granted") = totalEngages
          /\ RecordCount("denied") = totalFlashes
    /\ ReturnedCallRecords

\* an unlock_door or flash_relay of the call in progress has returned and the
\* record for it has not been issued
RecordOwed == Len(records) < totalEngages + totalFlashes

\* C19 as amended: between two scans, that is whenever every call so far has
\* returned, granted records and completed engagements, denied records and
\* completed flashes are equal in number.  A record is only ever issued for a
\* completed actuation, and at most one completed actuation has no record: the
\* one of the call in progress, between the return of unlock_door or
\* flash_relay and the start of the log thread, and for good when an interrupt
\* ends the call at that point.
C19_OneRecordPerReturnedActuation ==
    /\ pc \in {"read", "returned"} =>
          /\ RecordCount("granted") = totalEngages
          /\ RecordCount("denied") = totalFlashes
    /\ RecordCount("granted") \in {totalEngages - 1, totalEngages}
    /\ RecordCount("denied") \in {totalFlashes - 1, totalFlashes}
    /\ Len(records) \in {totalEngages + totalFlashes - 1, totalEngages + totalFlashes}
    /\ RecordOwed =>
          /\ issued = 0
          /\ engages + flashes = 1
          /\ \/ pc \in {"grant_log", "deny_log"}
             \/ pc \in {"unwind"} \cup Over /\ exitCause = "interrupt"
    /\ ReturnedCallRecords

C19_Witness ==
    /\ pc = "read"
    /\ scans = 2
    /\ totalEngages = 1
    /\ totalFlashes = 1
    /\ records[1].endpoint = "denied"
    /\ records[2].endpoint = "granted"

-----------------------------------------------------------------------------
(* C20 *)

\* C20: no execution leaves the output HIGH for good: once the main thread
\* has left the with statement, after which nothing drives or releases the
\* pin any more, the output is not HIGH.
C20_NeverLeftHigh == pc \in Over => output # "HIGH"

====
